---- MODULE Spec2Model ----
(***************************************************************************)
(* ConversationJobQueue (ts/jobs/conversationJobQueue.ts): the durable,    *)
(* per-conversation serialized job queue.  Each job is one asynchronous    *)
(* task; pc[j] is the await at which the task is suspended.  The generic   *)
(* JobQueue, InMemoryQueues, commonShouldJobContinue, the sleeper, the     *)
(* challenge handler and the redux conversation reducer are collaborators  *)
(* whose source is outside this file; they are modelled from the design    *)
(* document.                                                               *)
(***************************************************************************)
EXTENDS Integers, Sequences, FiniteSets, TLC

\* ------------------------------------------------------------------ bounds
MaxJobs == 2        \* jobs ever added
MaxTime == 1        \* last value of the clock
MaxWaiters == 2     \* rendezvous ever created by explodePromise()

\* Program constants.  The clock counts in days, so the retry window
\* durations.DAY is one tick; a 5-minute gating timeout is shorter than a
\* tick and may fire at any moment.  MAX_ATTEMPTS is
\* exponentialBackoffMaxAttempts(MAX_RETRY_TIME), scaled down with the clock.
MAX_RETRY_TIME == 1
MAX_ATTEMPTS == 2

ConvIds == {"c1", "c2"}
Uuids == {"u1", "u2"}
JobIds == 1..MaxJobs

\* The kinds run() tells apart: ProfileKey, Receipts, and the eleven others,
\* which it treats alike (NormalMessage stands for them).
conversationQueueJobEnum == {"NormalMessage", "ProfileKey", "Receipts"}

LaneKeys == ConvIds \cup conversationQueueJobEnum

\* ------------------------------------------------------------------ errors
NoUuid == "none"
Ident(u) == [class |-> "OutgoingIdentityKeyError", uuid |-> u]
Challenge == [class |-> "SendMessageChallengeError", uuid |-> NoUuid]
Other == [class |-> "Error", uuid |-> NoUuid]
SubErrors == { Other, Ident("u1"), Ident("u2"), Ident(NoUuid), Challenge }
Plain(e) == [class |-> e.class, uuid |-> e.uuid, errors |-> << >>]
Proto(es) == [class |-> "SendMessageProtoError", uuid |-> NoUuid, errors |-> es]

\* What a send handler may throw.
HandlerErrors ==
  { Plain(Other), Plain(Ident("u1")), Plain(Ident(NoUuid)), Plain(Challenge),
    Proto(<<Ident("u1"), Ident("u2")>>), Proto(<<Ident("u1"), Challenge>>),
    Proto(<<Ident(NoUuid)>>), Proto(<<Challenge>>), Proto(<<Other, Ident("u1")>>) }

NoError == [class |-> "none", uuid |-> NoUuid, errors |-> << >>]

\* ------------------------------------------------------------------ state
VARIABLES
  jobs,                \* the jobs added so far: <<[conversationId, type, timestamp]>>
  store,               \* ids of the persisted job records
  lanes,               \* InMemoryQueues: key -> FIFO of job ids, head is running
  pc,                  \* per job: the await its task is suspended at
  attempt,             \* per job: attempt number passed to run()
  timeRemaining,       \* per job: run()'s local timeRemaining
  shouldContinue,      \* per job: run()'s local shouldContinue
  awaiting,            \* per job: the rendezvous its Promise.race awaits, 0 if none
  joined,              \* per job: its current wait found the rendezvous in the map
  now,                 \* Date.now()
  challenges,          \* conversations the challenge handler has registered
  verificationDataByConversation,
  verificationWaitMap, \* conversation -> rendezvous id, 0 if no entry
  waiterSeq,           \* rendezvous created so far
  resolvedWaiters,     \* resolved rendezvous that some job still awaits
  isShuttingDown,
  outcome,             \* per job: how the queue finished with it
  inserts,             \* per job: store inserts
  deletes,             \* per job: store deletes
  thrown               \* the error the send handler threw in the last step

vars == << jobs, store, lanes, pc, attempt, timeRemaining, shouldContinue,
           awaiting, joined, now, challenges, verificationDataByConversation,
           verificationWaitMap, waiterSeq, resolvedWaiters, isShuttingDown,
           outcome, inserts, deletes, thrown >>

NoVerification == [type |-> "None", canceledAt |-> 0, uuidsNeedingVerification |-> {}]
PendingVerification(us) ==
  [type |-> "PendingVerification", canceledAt |-> 0, uuidsNeedingVerification |-> us]
VerificationCancelled(t) ==
  [type |-> "VerificationCancelled", canceledAt |-> t, uuidsNeedingVerification |-> {}]

Init ==
  /\ jobs = << >>
  /\ store = {}
  /\ lanes = [k \in LaneKeys |-> << >>]
  /\ pc = [j \in JobIds |-> "none"]
  /\ attempt = [j \in JobIds |-> 0]
  /\ timeRemaining = [j \in JobIds |-> 0]
  /\ shouldContinue = [j \in JobIds |-> FALSE]
  /\ awaiting = [j \in JobIds |-> 0]
  /\ joined = [j \in JobIds |-> FALSE]
  /\ now = 0
  /\ challenges = {}
  /\ verificationDataByConversation = [c \in ConvIds |-> NoVerification]
  /\ verificationWaitMap = [c \in ConvIds |-> 0]
  /\ waiterSeq = 0
  /\ resolvedWaiters = {}
  /\ isShuttingDown = FALSE
  /\ outcome = [j \in JobIds |-> "pending"]
  /\ inserts = [j \in JobIds |-> 0]
  /\ deletes = [j \in JobIds |-> 0]
  /\ thrown = NoError

\* ------------------------------------------------------------------ helpers
Job(j) == jobs[j]
Added == 1..Len(jobs)

\* Faulty variant: one lane per job kind.
getInMemoryQueue_byType(job) == job.type

\* getInMemoryQueue: the lane of a job is the lane of its conversationId.
getInMemoryQueue(job) == job.conversationId

Lane(j) == getInMemoryQueue(Job(j))

\* Faulty variant: the continuation check never says stop.
commonShouldJobContinue_always(remaining) == TRUE

\* commonShouldJobContinue: false once the retry window has elapsed.
commonShouldJobContinue(remaining) == remaining > 0

\* Faulty variant: a new rendezvous on every call.
startVerificationWaiter_alwaysNew(conversationId) ==
  [promise |-> waiterSeq + 1,
   map |-> [verificationWaitMap EXCEPT ![conversationId] = waiterSeq + 1],
   seq |-> waiterSeq + 1]

\* startVerificationWaiter: the rendezvous to await, and the map afterwards.
startVerificationWaiter(conversationId) ==
  LET existing == verificationWaitMap[conversationId] IN
  IF existing # 0
    THEN [promise |-> existing, map |-> verificationWaitMap, seq |-> waiterSeq]
    ELSE [promise |-> waiterSeq + 1,
          map |-> [verificationWaitMap EXCEPT ![conversationId] = waiterSeq + 1],
          seq |-> waiterSeq + 1]

\* The errors processError is applied to: the error itself, then the
\* sub-errors of a SendMessageProtoError.
Scanned(error) ==
  << [class |-> error.class, uuid |-> error.uuid] >> \o
  (IF error.class = "SendMessageProtoError" THEN error.errors ELSE << >>)

\* Faulty variant: a contact without a UUID is collected as well.
IsUntrusted_anyIdentity(e) == e.class = "OutgoingIdentityKeyError"

\* processError pushes the UUID of an OutgoingIdentityKeyError's contact, if
\* the contact has one.
IsUntrusted(e) == e.class = "OutgoingIdentityKeyError" /\ e.uuid # NoUuid

\* Faulty variant: the sub-errors of a SendMessageProtoError are not scanned.
untrustedUuids_topOnly(error) ==
  IF error.class = "OutgoingIdentityKeyError" /\ error.uuid # NoUuid
    THEN << error.uuid >>
    ELSE << >>

\* untrustedUuids after the scan, in push order.
untrustedUuids(error) ==
  LET hits == SelectSeq(Scanned(error), IsUntrusted)
  IN [i \in 1..Len(hits) |-> hits[i].uuid]

\* Faulty variant: only the error itself is looked at, not its sub-errors.
challengeSeen_topOnly(error) == error.class = "SendMessageChallengeError"

\* Whether the scan met a SendMessageChallengeError (challengeHandler.register).
challengeSeen(error) ==
  \E i \in 1..Len(Scanned(error)) : Scanned(error)[i].class = "SendMessageChallengeError"

Range(s) == { s[i] : i \in 1..Len(s) }

\* The reducer of conversationStoppedByMissingVerification.
conversationStoppedByMissingVerification(data, untrusted) ==
  IF data.type = "PendingVerification"
    THEN PendingVerification(data.uuidsNeedingVerification \cup untrusted)
    ELSE PendingVerification(untrusted)

Waiting(j) == pc[j] \in {"waitCaptcha", "waitVerification"}


\* ------------------------------------------------- generic JobQueue outcomes
envVars == << now, challenges, verificationDataByConversation, isShuttingDown >>
waitVars == << verificationWaitMap, waiterSeq, resolvedWaiters >>
awaitVars == << awaiting, joined >>
localVars == << timeRemaining, shouldContinue >>
queueVars == << store, deletes, lanes, outcome >>

\* The locals of run() end with the call.
DropLocals(j) ==
  /\ timeRemaining' = [timeRemaining EXCEPT ![j] = 0]
  /\ shouldContinue' = [shouldContinue EXCEPT ![j] = FALSE]

\* The job is finished with: its lane moves on to the next job.
Finish(j, how) ==
  /\ lanes' = [lanes EXCEPT ![Lane(j)] = Tail(@)]
  /\ outcome' = [outcome EXCEPT ![j] = how]
  /\ pc' = [pc EXCEPT ![j] = "done"]

Remove(j) ==
  /\ store' = store \ {j}
  /\ deletes' = [deletes EXCEPT ![j] = @ + 1]

\* run() returned: the job is done and its record is deleted.
RunReturned(j, how) ==
  /\ Finish(j, how)
  /\ Remove(j)
  /\ DropLocals(j)

\* Faulty variant: the record is deleted on every failure.
RunThrew_dropsRecord(j) ==
  /\ DropLocals(j)
  /\ Remove(j)
  /\ IF isShuttingDown \/ attempt[j] >= MAX_ATTEMPTS
       THEN Finish(j, IF isShuttingDown THEN "shutdown" ELSE "failed")
       ELSE /\ pc' = [pc EXCEPT ![j] = "backoff"]
            /\ UNCHANGED << lanes, outcome >>

\* run() threw: retry after the backoff delay, unless this was the final
\* attempt (the record is deleted) or the queue is shutting down (the record
\* stays for the next start).
RunThrew(j) ==
  /\ DropLocals(j)
  /\ IF isShuttingDown
       THEN /\ Finish(j, "shutdown")
            /\ UNCHANGED << store, deletes >>
       ELSE IF attempt[j] >= MAX_ATTEMPTS
         THEN /\ Finish(j, "failed")
              /\ Remove(j)
         ELSE /\ pc' = [pc EXCEPT ![j] = "backoff"]
              /\ UNCHANGED queueVars

\* ------------------------------------------------------------------ add()
\* add(): maybeSolve() changes nothing here; super.add() creates the job with
\* a fresh id and the current time, persists it and submits it to its lane.
Add(conversationId, type) ==
  /\ Len(jobs) < MaxJobs
  /\ LET j == Len(jobs) + 1
         job == [conversationId |-> conversationId, type |-> type, timestamp |-> now]
     IN /\ jobs' = Append(jobs, job)
        /\ store' = store \cup {j}
        /\ inserts' = [inserts EXCEPT ![j] = @ + 1]
        /\ lanes' = [lanes EXCEPT ![getInMemoryQueue(job)] = Append(@, j)]
        /\ pc' = [pc EXCEPT ![j] = "queued"]
  /\ thrown' = NoError
  /\ UNCHANGED << attempt, localVars, awaitVars, envVars, waitVars, outcome, deletes >>

\* An attempt begins: run() is called, unless the queue is shutting down,
\* when the job is left to the next start.
Attempt(j, n) ==
  IF isShuttingDown
    THEN /\ Finish(j, "shutdown")
         /\ UNCHANGED << store, deletes, attempt >>
    ELSE /\ pc' = [pc EXCEPT ![j] = "load"]
         /\ attempt' = [attempt EXCEPT ![j] = n]
         /\ UNCHANGED queueVars

\* The lane (concurrency 1) starts its head job: first attempt of run().
RunStart(j) ==
  /\ j \in Added
  /\ pc[j] = "queued"
  /\ lanes[Lane(j)] # << >>
  /\ Head(lanes[Lane(j)]) = j
  /\ Attempt(j, 1)
  /\ thrown' = NoError
  /\ UNCHANGED << jobs, localVars, awaitVars, envVars, waitVars, inserts >>

\* The backoff delay has elapsed: next attempt, same record, same lane slot.
BackoffElapsed(j) ==
  /\ j \in Added
  /\ pc[j] = "backoff"
  /\ Attempt(j, attempt[j] + 1)
  /\ thrown' = NoError
  /\ UNCHANGED << jobs, localVars, awaitVars, envVars, waitVars, inserts >>

\* run(): after ConversationController.load(), look the conversation up.
Load(j, found) ==
  /\ j \in Added
  /\ pc[j] = "load"
  /\ IF found
       THEN /\ pc' = [pc EXCEPT ![j] = "gate"]
            /\ UNCHANGED << queueVars, localVars >>
       ELSE RunThrew(j)
  /\ thrown' = NoError
  /\ UNCHANGED << jobs, attempt, awaitVars, envVars, waitVars, inserts >>

\* Top of the gating loop: timeRemaining, then await commonShouldJobContinue
\* (count only tells that helper whether to sleep first).
GateEnter(j) ==
  /\ j \in Added
  /\ pc[j] = "gate"
  /\ timeRemaining' = [timeRemaining EXCEPT ![j] = Job(j).timestamp + MAX_RETRY_TIME - now]
  /\ pc' = [pc EXCEPT ![j] = "shouldContinue"]
  /\ thrown' = NoError
  /\ UNCHANGED << jobs, queueVars, attempt, shouldContinue, awaitVars, envVars,
                  waitVars, inserts >>

\* Leaving the gating loop: the messaging check, then the send handler of the
\* job's kind is invoked with the job bundle.
Dispatch(j, continue, messaging) ==
  IF messaging
    THEN /\ pc' = [pc EXCEPT ![j] = "handler"]
         /\ shouldContinue' = [shouldContinue EXCEPT ![j] = continue]
         /\ UNCHANGED << queueVars, timeRemaining >>
    ELSE RunThrew(j)

\* Faulty variant: the job awaits a rendezvous that is not entered in the map.
StartWait_unregistered(j, at) ==
  LET w == startVerificationWaiter(Job(j).conversationId) IN
  /\ w.seq <= MaxWaiters
  /\ awaiting' = [awaiting EXCEPT ![j] = w.promise]
  /\ joined' = [joined EXCEPT ![j] = verificationWaitMap[Job(j).conversationId] # 0]
  /\ verificationWaitMap' = verificationWaitMap
  /\ waiterSeq' = w.seq
  /\ pc' = [pc EXCEPT ![j] = at]
  /\ DropLocals(j)
  /\ UNCHANGED queueVars

\* await Promise.race([startVerificationWaiter(conversation.id), sleeper.sleep(5 min)]);
\* continue: both locals are assigned afresh before they are read again.
StartWait(j, at) ==
  LET w == startVerificationWaiter(Job(j).conversationId) IN
  /\ w.seq <= MaxWaiters
  /\ awaiting' = [awaiting EXCEPT ![j] = w.promise]
  /\ joined' = [joined EXCEPT ![j] = verificationWaitMap[Job(j).conversationId] # 0]
  /\ verificationWaitMap' = w.map
  /\ waiterSeq' = w.seq
  /\ pc' = [pc EXCEPT ![j] = at]
  /\ DropLocals(j)
  /\ UNCHANGED queueVars

\* challengeHandler.isRegistered(conversationId)
isRegistered(conversationId) == conversationId \in challenges

\* Faulty variant: the bundle says shouldContinue although the check said no.
GateStop_continues(j, messaging) ==
  /\ j \in Added
  /\ pc[j] = "shouldContinue"
  /\ ~commonShouldJobContinue(timeRemaining[j])
  /\ Dispatch(j, TRUE, messaging)
  /\ thrown' = NoError
  /\ UNCHANGED << jobs, attempt, awaitVars, envVars, waitVars, inserts >>

\* if (!shouldContinue) break;
GateStop(j, messaging) ==
  /\ j \in Added
  /\ pc[j] = "shouldContinue"
  /\ ~commonShouldJobContinue(timeRemaining[j])
  /\ Dispatch(j, FALSE, messaging)
  /\ thrown' = NoError
  /\ UNCHANGED << jobs, attempt, awaitVars, envVars, waitVars, inserts >>

\* Faulty variant: the captcha wait starts whether or not the queue is
\* shutting down.
GateCaptcha_ignoresShutdown(j) ==
  /\ j \in Added
  /\ pc[j] = "shouldContinue"
  /\ commonShouldJobContinue(timeRemaining[j])
  /\ isRegistered(Job(j).conversationId)
  /\ StartWait(j, "waitCaptcha")
  /\ thrown' = NoError
  /\ UNCHANGED << jobs, attempt, envVars, resolvedWaiters, inserts >>

\* if (isRegistered(conversationId)) { throw on shutdown; wait; continue }
GateCaptcha(j) ==
  /\ j \in Added
  /\ pc[j] = "shouldContinue"
  /\ commonShouldJobContinue(timeRemaining[j])
  /\ isRegistered(Job(j).conversationId)
  /\ IF isShuttingDown
       THEN /\ RunThrew(j)
            /\ UNCHANGED << awaitVars, verificationWaitMap, waiterSeq >>
       ELSE StartWait(j, "waitCaptcha")
  /\ thrown' = NoError
  /\ UNCHANGED << jobs, attempt, envVars, resolvedWaiters, inserts >>

\* if (!verificationData) break;
GateClear(j, messaging) ==
  /\ j \in Added
  /\ pc[j] = "shouldContinue"
  /\ commonShouldJobContinue(timeRemaining[j])
  /\ ~isRegistered(Job(j).conversationId)
  /\ verificationDataByConversation[Job(j).conversationId].type = "None"
  /\ Dispatch(j, TRUE, messaging)
  /\ thrown' = NoError
  /\ UNCHANGED << jobs, attempt, awaitVars, envVars, waitVars, inserts >>

\* Faulty variant: the verification state is looked at before the challenge.
GatePending_beforeCaptcha(j) ==
  /\ j \in Added
  /\ pc[j] = "shouldContinue"
  /\ commonShouldJobContinue(timeRemaining[j])
  /\ verificationDataByConversation[Job(j).conversationId].type = "PendingVerification"
  /\ IF Job(j).type = "ProfileKey"
       THEN /\ RunReturned(j, "cancelledProfileShare")
            /\ UNCHANGED << awaitVars, verificationWaitMap, waiterSeq >>
       ELSE IF isShuttingDown
         THEN /\ RunThrew(j)
              /\ UNCHANGED << awaitVars, verificationWaitMap, waiterSeq >>
         ELSE StartWait(j, "waitVerification")
  /\ thrown' = NoError
  /\ UNCHANGED << jobs, attempt, envVars, resolvedWaiters, inserts >>

\* Faulty variant: a ProfileKey job waits like every other kind.
GatePending_waitsAlways(j) ==
  /\ j \in Added
  /\ pc[j] = "shouldContinue"
  /\ commonShouldJobContinue(timeRemaining[j])
  /\ ~isRegistered(Job(j).conversationId)
  /\ verificationDataByConversation[Job(j).conversationId].type = "PendingVerification"
  /\ IF isShuttingDown
       THEN /\ RunThrew(j)
            /\ UNCHANGED << awaitVars, verificationWaitMap, waiterSeq >>
       ELSE StartWait(j, "waitVerification")
  /\ thrown' = NoError
  /\ UNCHANGED << jobs, attempt, envVars, resolvedWaiters, inserts >>

\* PendingVerification: a ProfileKey job returns; any other kind throws on
\* shutdown, else waits and continues.
GatePending(j) ==
  /\ j \in Added
  /\ pc[j] = "shouldContinue"
  /\ commonShouldJobContinue(timeRemaining[j])
  /\ ~isRegistered(Job(j).conversationId)
  /\ verificationDataByConversation[Job(j).conversationId].type = "PendingVerification"
  /\ IF Job(j).type = "ProfileKey"
       THEN /\ RunReturned(j, "cancelledProfileShare")
            /\ UNCHANGED << awaitVars, verificationWaitMap, waiterSeq >>
       ELSE IF isShuttingDown
         THEN /\ RunThrew(j)
              /\ UNCHANGED << awaitVars, verificationWaitMap, waiterSeq >>
         ELSE StartWait(j, "waitVerification")
  /\ thrown' = NoError
  /\ UNCHANGED << jobs, attempt, envVars, resolvedWaiters, inserts >>

\* Faulty variant: the marker is cleared whatever its age.
GateCancelled_clearsAlways(j, messaging) ==
  /\ j \in Added
  /\ pc[j] = "shouldContinue"
  /\ commonShouldJobContinue(timeRemaining[j])
  /\ ~isRegistered(Job(j).conversationId)
  /\ verificationDataByConversation[Job(j).conversationId].type = "VerificationCancelled"
  /\ LET c == Job(j).conversationId
         data == verificationDataByConversation[c]
     IN /\ Dispatch(j, data.canceledAt < Job(j).timestamp, messaging)
        /\ verificationDataByConversation' =
             [verificationDataByConversation EXCEPT ![c] = NoVerification]
  /\ thrown' = NoError
  /\ UNCHANGED << jobs, attempt, awaitVars, now, challenges, isShuttingDown, waitVars,
                  inserts >>

\* Faulty variant: a cancellation at the very time of the job counts as stale.
GateCancelled_strict(j, messaging) ==
  /\ j \in Added
  /\ pc[j] = "shouldContinue"
  /\ commonShouldJobContinue(timeRemaining[j])
  /\ ~isRegistered(Job(j).conversationId)
  /\ verificationDataByConversation[Job(j).conversationId].type = "VerificationCancelled"
  /\ LET c == Job(j).conversationId
         data == verificationDataByConversation[c]
     IN IF data.canceledAt > Job(j).timestamp
          THEN /\ Dispatch(j, FALSE, messaging)
               /\ UNCHANGED verificationDataByConversation
          ELSE /\ Dispatch(j, TRUE, messaging)
               /\ verificationDataByConversation' =
                    [verificationDataByConversation EXCEPT ![c] = NoVerification]
  /\ thrown' = NoError
  /\ UNCHANGED << jobs, attempt, awaitVars, now, challenges, isShuttingDown, waitVars,
                  inserts >>

\* VerificationCancelled: canceledAt >= timestamp gives shouldContinue = false,
\* an older marker is cleared; break either way.
GateCancelled(j, messaging) ==
  /\ j \in Added
  /\ pc[j] = "shouldContinue"
  /\ commonShouldJobContinue(timeRemaining[j])
  /\ ~isRegistered(Job(j).conversationId)
  /\ verificationDataByConversation[Job(j).conversationId].type = "VerificationCancelled"
  /\ LET c == Job(j).conversationId
         data == verificationDataByConversation[c]
     IN IF data.canceledAt >= Job(j).timestamp
          THEN /\ Dispatch(j, FALSE, messaging)
               /\ UNCHANGED verificationDataByConversation
          ELSE /\ Dispatch(j, TRUE, messaging)
               /\ verificationDataByConversation' =
                    [verificationDataByConversation EXCEPT ![c] = NoVerification]
  /\ thrown' = NoError
  /\ UNCHANGED << jobs, attempt, awaitVars, now, challenges, isShuttingDown, waitVars,
                  inserts >>

\* A resolved rendezvous is kept only while some other job still awaits it.
Forget(j) ==
  IF \E k \in Added : k # j /\ awaiting[k] = awaiting[j]
    THEN resolvedWaiters
    ELSE resolvedWaiters \ {awaiting[j]}

\* Faulty variant: break instead of continue after the wait.
WaitResolved_breaks(j) ==
  /\ j \in Added
  /\ Waiting(j)
  /\ awaiting[j] \in resolvedWaiters
  /\ pc' = [pc EXCEPT ![j] = "handler"]
  /\ shouldContinue' = [shouldContinue EXCEPT ![j] = TRUE]
  /\ awaiting' = [awaiting EXCEPT ![j] = 0]
  /\ joined' = [joined EXCEPT ![j] = FALSE]
  /\ resolvedWaiters' = Forget(j)
  /\ thrown' = NoError
  /\ UNCHANGED << jobs, queueVars, attempt, timeRemaining, envVars, verificationWaitMap,
                  waiterSeq, inserts >>

\* The awaited rendezvous was resolved: continue at the top of the loop.
WaitResolved(j) ==
  /\ j \in Added
  /\ Waiting(j)
  /\ awaiting[j] \in resolvedWaiters
  /\ pc' = [pc EXCEPT ![j] = "gate"]
  /\ awaiting' = [awaiting EXCEPT ![j] = 0]
  /\ joined' = [joined EXCEPT ![j] = FALSE]
  /\ resolvedWaiters' = Forget(j)
  /\ thrown' = NoError
  /\ UNCHANGED << jobs, queueVars, attempt, localVars, envVars, verificationWaitMap,
                  waiterSeq, inserts >>

\* Faulty variant: a wait that times out takes its entry out of the map.
WaitTimeout_dropsEntry(j) ==
  /\ j \in Added
  /\ Waiting(j)
  /\ ~isShuttingDown
  /\ pc' = [pc EXCEPT ![j] = "gate"]
  /\ awaiting' = [awaiting EXCEPT ![j] = 0]
  /\ joined' = [joined EXCEPT ![j] = FALSE]
  /\ resolvedWaiters' = Forget(j)
  /\ verificationWaitMap' =
       [verificationWaitMap EXCEPT ![Job(j).conversationId] = IF @ = awaiting[j] THEN 0 ELSE @]
  /\ thrown' = NoError
  /\ UNCHANGED << jobs, queueVars, attempt, localVars, envVars, waiterSeq, inserts >>

\* The five minutes elapsed first: continue at the top of the loop.
WaitTimeout(j) ==
  /\ j \in Added
  /\ Waiting(j)
  /\ ~isShuttingDown
  /\ pc' = [pc EXCEPT ![j] = "gate"]
  /\ awaiting' = [awaiting EXCEPT ![j] = 0]
  /\ joined' = [joined EXCEPT ![j] = FALSE]
  /\ resolvedWaiters' = Forget(j)
  /\ thrown' = NoError
  /\ UNCHANGED << jobs, queueVars, attempt, localVars, envVars, verificationWaitMap,
                  waiterSeq, inserts >>

\* The sleep (resolveOnShutdown: false) is rejected by the shutdown: run() throws.
WaitShutdown(j) ==
  /\ j \in Added
  /\ Waiting(j)
  /\ isShuttingDown
  /\ RunThrew(j)
  /\ awaiting' = [awaiting EXCEPT ![j] = 0]
  /\ joined' = [joined EXCEPT ![j] = FALSE]
  /\ resolvedWaiters' = Forget(j)
  /\ thrown' = NoError
  /\ UNCHANGED << jobs, attempt, envVars, verificationWaitMap, waiterSeq, inserts >>

\* The send handler resolved: run() returns.
HandlerSucceed(j) ==
  /\ j \in Added
  /\ pc[j] = "handler"
  /\ RunReturned(j, "handled")
  /\ thrown' = NoError
  /\ UNCHANGED << jobs, attempt, awaitVars, envVars, waitVars, inserts >>

\* Faulty variant: only ProfileKey jobs give up.
CancelsOnUntrusted_profileKeyOnly(type) == type = "ProfileKey"

\* ProfileKey and Receipts jobs give up on untrusted send targets.
CancelsOnUntrusted(type) == type \in {"ProfileKey", "Receipts"}

\* The send handler threw: the catch block of run().
HandlerFail(j, error) ==
  /\ j \in Added
  /\ pc[j] = "handler"
  /\ LET c == Job(j).conversationId
         untrusted == untrustedUuids(error)
     IN /\ challenges' = IF challengeSeen(error) THEN challenges \cup {c} ELSE challenges
        /\ IF Len(untrusted) > 0
             THEN IF CancelsOnUntrusted(Job(j).type)
               THEN /\ RunReturned(j, "cancelledUntrusted")
                    /\ UNCHANGED verificationDataByConversation
               ELSE /\ verificationDataByConversation' =
                         [verificationDataByConversation EXCEPT
                            ![c] = conversationStoppedByMissingVerification(@, Range(untrusted))]
                    /\ RunThrew(j)
             ELSE /\ RunThrew(j)
                  /\ UNCHANGED verificationDataByConversation
  /\ thrown' = error
  /\ UNCHANGED << jobs, attempt, awaitVars, now, isShuttingDown, waitVars, inserts >>

\* Faulty variant: the entry is resolved but stays in the map.
ResolveVerificationWaiter_keepsEntry(conversationId) ==
  LET existing == verificationWaitMap[conversationId] IN
  /\ resolvedWaiters' =
       IF existing # 0 /\ (\E j \in Added : awaiting[j] = existing)
         THEN resolvedWaiters \cup {existing}
         ELSE resolvedWaiters
  /\ thrown' = NoError
  /\ UNCHANGED << jobs, queueVars, pc, attempt, localVars, awaitVars, envVars,
                  verificationWaitMap, waiterSeq, inserts >>

\* resolveVerificationWaiter(): resolve and drop the entry, if there is one.
ResolveVerificationWaiter(conversationId) ==
  LET existing == verificationWaitMap[conversationId] IN
  /\ IF existing # 0
       THEN /\ resolvedWaiters' =
                 IF \E j \in Added : awaiting[j] = existing
                   THEN resolvedWaiters \cup {existing}
                   ELSE resolvedWaiters
            /\ verificationWaitMap' = [verificationWaitMap EXCEPT ![conversationId] = 0]
       ELSE UNCHANGED << resolvedWaiters, verificationWaitMap >>
  /\ thrown' = NoError
  /\ UNCHANGED << jobs, queueVars, pc, attempt, localVars, awaitVars, envVars, waiterSeq,
                  inserts >>

\* ------------------------------------------------------------- environment
Tick ==
  /\ now < MaxTime
  /\ now' = now + 1
  /\ thrown' = NoError
  /\ UNCHANGED << jobs, queueVars, pc, attempt, localVars, awaitVars, challenges,
                  verificationDataByConversation, isShuttingDown, waitVars, inserts >>

\* The challenge handler registers a challenge for the conversation.
ChallengeRegistered(c) ==
  /\ c \notin challenges
  /\ challenges' = challenges \cup {c}
  /\ thrown' = NoError
  /\ UNCHANGED << jobs, queueVars, pc, attempt, localVars, awaitVars, now,
                  verificationDataByConversation, isShuttingDown, waitVars, inserts >>

\* The challenge is solved and unregistered.
ChallengeSolved(c) ==
  /\ c \in challenges
  /\ challenges' = challenges \ {c}
  /\ thrown' = NoError
  /\ UNCHANGED << jobs, queueVars, pc, attempt, localVars, awaitVars, now,
                  verificationDataByConversation, isShuttingDown, waitVars, inserts >>

\* Another sender finds an untrusted identity in the conversation.
ConversationStopped(c, u) ==
  /\ verificationDataByConversation[c].type # "PendingVerification"
  /\ verificationDataByConversation' =
       [verificationDataByConversation EXCEPT
          ![c] = conversationStoppedByMissingVerification(@, {u})]
  /\ thrown' = NoError
  /\ UNCHANGED << jobs, queueVars, pc, attempt, localVars, awaitVars, now, challenges,
                  isShuttingDown, waitVars, inserts >>

\* The user verifies the pending identities.
ConversationVerified(c) ==
  /\ verificationDataByConversation[c].type = "PendingVerification"
  /\ verificationDataByConversation' =
       [verificationDataByConversation EXCEPT ![c] = NoVerification]
  /\ thrown' = NoError
  /\ UNCHANGED << jobs, queueVars, pc, attempt, localVars, awaitVars, now, challenges,
                  isShuttingDown, waitVars, inserts >>

\* The user cancels out of the verification dialog.
VerificationCancel(c) ==
  /\ verificationDataByConversation[c].type = "PendingVerification"
  /\ verificationDataByConversation' =
       [verificationDataByConversation EXCEPT ![c] = VerificationCancelled(now)]
  /\ thrown' = NoError
  /\ UNCHANGED << jobs, queueVars, pc, attempt, localVars, awaitVars, now, challenges,
                  isShuttingDown, waitVars, inserts >>

ShutDown ==
  /\ ~isShuttingDown
  /\ isShuttingDown' = TRUE
  /\ thrown' = NoError
  /\ UNCHANGED << jobs, queueVars, pc, attempt, localVars, awaitVars, now, challenges,
                  verificationDataByConversation, waitVars, inserts >>

\* ------------------------------------------------------------ specification
\* Spec: the whole environment (clock, shutdown, challenges, verification
\* state, every handler error) around the jobs of one conversation.
OneConv == {"c1"}

Next ==
  \/ \E c \in OneConv, k \in conversationQueueJobEnum : Add(c, k)
  \/ \E j \in JobIds : RunStart(j)
  \/ \E j \in JobIds : BackoffElapsed(j)
  \/ \E j \in JobIds, found \in BOOLEAN : Load(j, found)
  \/ \E j \in JobIds : GateEnter(j)
  \/ \E j \in JobIds, messaging \in BOOLEAN : GateStop(j, messaging)
  \/ \E j \in JobIds : GateCaptcha(j)
  \/ \E j \in JobIds, messaging \in BOOLEAN : GateClear(j, messaging)
  \/ \E j \in JobIds : GatePending(j)
  \/ \E j \in JobIds, messaging \in BOOLEAN : GateCancelled(j, messaging)
  \/ \E j \in JobIds : WaitResolved(j)
  \/ \E j \in JobIds : WaitTimeout(j)
  \/ \E j \in JobIds : WaitShutdown(j)
  \/ \E j \in JobIds : HandlerSucceed(j)
  \/ \E j \in JobIds, error \in HandlerErrors : HandlerFail(j, error)
  \/ \E c \in OneConv : ResolveVerificationWaiter(c)
  \/ Tick
  \/ \E c \in OneConv : ChallengeRegistered(c)
  \/ \E c \in OneConv : ChallengeSolved(c)
  \/ \E c \in OneConv : ConversationStopped(c, "u1")
  \/ \E c \in OneConv : ConversationVerified(c)
  \/ \E c \in OneConv : VerificationCancel(c)
  \/ ShutDown

Spec == Init /\ [][Next]_vars

\* SpecLanes: jobs of both conversations side by side; the environment is
\* limited to captcha challenges and the errors that leave the verification
\* state alone, and the clock stands still.
LaneErrors == { Plain(Other), Plain(Challenge), Proto(<<Challenge>>) }

NextLanes ==
  \/ \E c \in ConvIds, k \in conversationQueueJobEnum : Add(c, k)
  \/ \E j \in JobIds : RunStart(j)
  \/ \E j \in JobIds : BackoffElapsed(j)
  \/ \E j \in JobIds, found \in BOOLEAN : Load(j, found)
  \/ \E j \in JobIds : GateEnter(j)
  \/ \E j \in JobIds : GateCaptcha(j)
  \/ \E j \in JobIds, messaging \in BOOLEAN : GateClear(j, messaging)
  \/ \E j \in JobIds : WaitResolved(j)
  \/ \E j \in JobIds : WaitTimeout(j)
  \/ \E j \in JobIds : HandlerSucceed(j)
  \/ \E j \in JobIds, error \in LaneErrors : HandlerFail(j, error)
  \/ \E c \in ConvIds : ResolveVerificationWaiter(c)
  \/ \E c \in ConvIds : ChallengeRegistered(c)
  \/ \E c \in ConvIds : ChallengeSolved(c)

SpecLanes == Init /\ [][NextLanes]_vars

\* SpecLoop: the gating loop under fair scheduling.  Time advances, timers
\* fire and the task of every job is resumed when it can be; nothing obliges
\* the environment to solve a challenge or to verify a contact.  Jobs are
\* added while the clock can still run past their retry window, and a
\* rendezvous is resolved only while another one can still be created.
AddEarly(conversationId, type) ==
  /\ now + MAX_RETRY_TIME <= MaxTime
  /\ Add(conversationId, type)

ResolveWhileRoom(conversationId) ==
  /\ waiterSeq < MaxWaiters
  /\ ResolveVerificationWaiter(conversationId)

\* One step of the gating pass after commonShouldJobContinue has resolved.
GatePass(j) ==
  \/ GateStop(j, TRUE)
  \/ GateCaptcha(j)
  \/ GateClear(j, TRUE)
  \/ GatePending(j)

\* The Promise.race of a gating wait settles.
WaitEnds(j) == WaitResolved(j) \/ WaitTimeout(j) \/ WaitShutdown(j)

\* The errors that put a gate in the way of the next attempt, and a plain one.
LoopErrors == { Plain(Other), Plain(Challenge), Plain(Ident("u1")) }

NextLoop ==
  \/ \E c \in OneConv, k \in {"NormalMessage", "ProfileKey"} : AddEarly(c, k)
  \/ \E j \in JobIds : RunStart(j)
  \/ \E j \in JobIds : Load(j, TRUE)
  \/ \E j \in JobIds : GateEnter(j)
  \/ \E j \in JobIds : GatePass(j)
  \/ \E j \in JobIds : WaitEnds(j)
  \/ \E j \in JobIds : HandlerSucceed(j)
  \/ \E j \in JobIds, error \in LoopErrors : HandlerFail(j, error)
  \/ \E j \in JobIds : BackoffElapsed(j)
  \/ \E c \in OneConv : ResolveWhileRoom(c)
  \/ Tick
  \/ \E c \in OneConv : ChallengeRegistered(c)
  \/ \E c \in OneConv : ChallengeSolved(c)
  \/ \E c \in OneConv : ConversationStopped(c, "u1")
  \/ \E c \in OneConv : ConversationVerified(c)
  \/ ShutDown

Fairness ==
  /\ WF_vars(Tick)
  /\ \A j \in JobIds :
       /\ WF_vars(GateEnter(j))
       /\ WF_vars(GatePass(j))
       /\ WF_vars(WaitEnds(j))

SpecLoop == Init /\ [][NextLoop]_vars /\ Fairness

\* ------------------------------------------------------------------ claims
Conv(j) == Job(j).conversationId

\* Inside run(): gating loop, gating wait or handler.
InRun(j) == pc[j] \in {"load", "gate", "shouldContinue", "waitCaptcha",
                       "waitVerification", "handler"}

\* Success or terminal failure: the queue is through with the job.
Terminal(j) ==
  /\ pc[j] = "done"
  /\ outcome[j] \in {"handled", "cancelledProfileShare", "cancelledUntrusted", "failed"}

\* Job j takes a step.
Steps(j) == j \in Added /\ pc'[j] # pc[j]

Failed(p) == p \in {"backoff", "done"}

\* C1: of two jobs added for the same conversation, the later one is not
\* inside run() until the earlier one has ended in success or terminal
\* failure; not while the earlier one waits at the gate or waits out a backoff.
C1_PerConversationFifo ==
  \A j1, j2 \in Added :
    (j1 < j2 /\ Conv(j1) = Conv(j2) /\ InRun(j2)) => Terminal(j1)

\* The earlier job waits out its backoff, the later one is still queued.
C1_Witness ==
  \E j1, j2 \in Added :
    /\ j1 < j2 /\ Conv(j1) = Conv(j2)
    /\ pc[j1] = "backoff" /\ attempt[j1] = 1
    /\ pc[j2] = "queued"

\* C2: at most one job of a conversation is inside run() at any time,
\* whatever the kinds of the jobs.
C2_MutualExclusionPerKey ==
  \A c \in ConvIds :
    Cardinality({ j \in Added : Conv(j) = c /\ InRun(j) }) <= 1

\* Two jobs of different kinds for one conversation: one suspended at the
\* captcha gate, the other held back in the lane.
C2_Witness ==
  \E j1, j2 \in Added :
    /\ Conv(j1) = Conv(j2) /\ Job(j1).type # Job(j2).type
    /\ pc[j1] = "waitCaptcha"
    /\ pc[j2] = "queued"

\* C3 as stated: a job whose gating pass found timeRemaining <= 0 is not
\* dispatched to its handler.
C3_NeverDispatchedAgain ==
  \A j \in Added : pc[j] = "handler" => timeRemaining[j] > 0

\* C3 amended: a gating pass that finds timeRemaining <= 0 consults neither
\* the captcha nor the verification state and starts no wait; it leaves the
\* loop and, unless the messaging interface is missing, invokes the handler
\* with shouldContinue = false and the timeRemaining it computed.  When that
\* handler call ends the job for good, its record is gone from the store.
C3_ExpiredJobIsToldToStop ==
  [][\A j \in JobIds :
       /\ (Steps(j) /\ pc[j] = "shouldContinue" /\ timeRemaining[j] <= 0) =>
            /\ pc'[j] = "handler" \/ Failed(pc'[j])
            /\ pc'[j] = "handler" =>
                 ~shouldContinue'[j] /\ timeRemaining'[j] = timeRemaining[j]
            /\ UNCHANGED << verificationWaitMap, waiterSeq, awaiting, challenges,
                            verificationDataByConversation >>
       /\ (Steps(j) /\ pc[j] = "handler" /\ timeRemaining[j] <= 0) =>
            /\ ~shouldContinue[j]
            /\ Terminal(j)' => j \notin store'
  ]_vars

\* The handler runs for a job whose retry window has elapsed.
C3_Witness ==
  \E j \in Added : pc[j] = "handler" /\ timeRemaining[j] <= 0 /\ ~shouldContinue[j]

\* C4: a job's record is inserted once, is in the store from add() until the
\* job ends in success, cancellation or terminal failure (through every
\* failed attempt before), and is deleted exactly once, at that end.
C4_RecordLifecycle ==
  \A j \in JobIds :
    /\ j \notin Added => j \notin store /\ inserts[j] = 0 /\ deletes[j] = 0
    /\ j \in Added =>
         /\ inserts[j] = 1
         /\ Terminal(j) => j \notin store /\ deletes[j] = 1
         /\ ~Terminal(j) => j \in store /\ deletes[j] = 0

\* A job is in its second attempt, its record still stored, while another
\* job's handler has succeeded and that record is deleted.
C4_Witness ==
  \E j1, j2 \in Added :
    /\ outcome[j1] = "handled" /\ j1 \notin store /\ deletes[j1] = 1
    /\ attempt[j2] = 2 /\ pc[j2] = "handler" /\ j2 \in store

\* C5: while the gating pass of a job whose retry window has not elapsed sees
\* a captcha challenge for its conversation, the handler is not dispatched:
\* the job waits on the conversation's rendezvous (or fails the attempt when
\* the queue is shutting down); it leaves the wait by the rendezvous being
\* resolved or the timeout, back to the top of the gating loop, which
\* recomputes timeRemaining; the handler is entered only from a gating pass
\* that found the window elapsed or no challenge registered.
C5_CaptchaGate ==
  [][\A j \in JobIds : Steps(j) =>
       /\ (pc[j] = "shouldContinue" /\ timeRemaining[j] > 0 /\ Conv(j) \in challenges) =>
            IF isShuttingDown
              THEN Failed(pc'[j])
              ELSE /\ pc'[j] = "waitCaptcha"
                   /\ awaiting'[j] # 0
                   /\ awaiting'[j] = verificationWaitMap'[Conv(j)]
       /\ pc[j] = "waitCaptcha" =>
            \/ pc'[j] = "gate" /\ (awaiting[j] \in resolvedWaiters \/ ~isShuttingDown)
            \/ isShuttingDown /\ Failed(pc'[j])
       /\ pc[j] = "gate" =>
            /\ pc'[j] = "shouldContinue"
            /\ timeRemaining'[j] = Job(j).timestamp + MAX_RETRY_TIME - now
       /\ pc'[j] = "handler" =>
            /\ pc[j] = "shouldContinue"
            /\ timeRemaining[j] <= 0 \/ Conv(j) \notin challenges
  ]_vars

\* A job suspended on a registered challenge whose rendezvous has just been
\* resolved.
C5_Witness ==
  \E j \in Added :
    /\ pc[j] = "waitCaptcha" /\ Conv(j) \in challenges
    /\ awaiting[j] \in resolvedWaiters

\* C6: a wait takes the rendezvous the map holds for the conversation and
\* leaves map and rendezvous count alone; only when the map holds none does it
\* create one and enter it.  An entry never changes except by being removed.
C6_GetOrCreate ==
  [][/\ \A j \in JobIds :
          (Steps(j) /\ pc'[j] \in {"waitCaptcha", "waitVerification"}) =>
            LET old == verificationWaitMap[Conv(j)] IN
            IF old # 0
              THEN /\ awaiting'[j] = old
                   /\ UNCHANGED << verificationWaitMap, waiterSeq >>
              ELSE /\ awaiting'[j] = waiterSeq + 1
                   /\ waiterSeq' = waiterSeq + 1
                   /\ verificationWaitMap' =
                        [verificationWaitMap EXCEPT ![Conv(j)] = waiterSeq + 1]
     /\ \A c \in ConvIds :
          (verificationWaitMap[c] # 0 /\ verificationWaitMap'[c] # verificationWaitMap[c])
            => verificationWaitMap'[c] = 0
  ]_vars

\* A second wait of the conversation got the rendezvous already in the map.
C6_Witness ==
  \E j \in Added :
    /\ Waiting(j) /\ joined[j]
    /\ awaiting[j] = verificationWaitMap[Conv(j)]
    /\ waiterSeq = 1

\* C7: resolveVerificationWaiter on a live entry removes the entry and marks
\* the rendezvous resolved for every job awaiting it, failing none of them; a
\* job released this way goes back to the top of the gating loop, never
\* straight to its handler; an entry in the map is never a resolved
\* rendezvous, and a newly created one is awaited by no job yet.
C7_ResolveReleases ==
  [][/\ \A c \in ConvIds :
          (verificationWaitMap[c] # 0 /\ verificationWaitMap'[c] = 0) =>
            /\ \A j \in Added :
                 awaiting[j] = verificationWaitMap[c] =>
                   /\ verificationWaitMap[c] \in resolvedWaiters'
                   /\ awaiting'[j] = awaiting[j]
            /\ pc' = pc /\ outcome' = outcome
     /\ \A j \in JobIds :
          (Steps(j) /\ Waiting(j) /\ awaiting[j] \in resolvedWaiters /\ ~isShuttingDown) =>
            pc'[j] = "gate" /\ awaiting'[j] = 0
     /\ \A c \in ConvIds :
          verificationWaitMap'[c] # 0 =>
            /\ verificationWaitMap'[c] \notin resolvedWaiters'
            /\ verificationWaitMap[c] = 0 =>
                 \A j \in Added : awaiting[j] # verificationWaitMap'[c]
  ]_vars

\* A job waits for verification on a rendezvous that has been resolved and
\* removed from the map.
C7_Witness ==
  \E j \in Added :
    /\ pc[j] = "waitVerification"
    /\ awaiting[j] \in resolvedWaiters
    /\ verificationWaitMap[Conv(j)] = 0

\* C8: a ProfileKey job whose gating pass reaches the verification state and
\* finds PendingVerification returns from run() at once: no handler, no error,
\* no rendezvous created, no wait.
C8_ProfileKeyDoesNotWait ==
  [][\A j \in JobIds :
       ( /\ Steps(j) /\ pc[j] = "shouldContinue"
         /\ Job(j).type = "ProfileKey"
         /\ timeRemaining[j] > 0
         /\ Conv(j) \notin challenges
         /\ verificationDataByConversation[Conv(j)].type = "PendingVerification" ) =>
           /\ pc'[j] = "done" /\ outcome'[j] = "cancelledProfileShare"
           /\ UNCHANGED << verificationWaitMap, waiterSeq, resolvedWaiters, awaiting,
                           verificationDataByConversation >>
  ]_vars

\* A ProfileKey job was dropped at the gate.
C8_Witness ==
  \E j \in Added :
    /\ Job(j).type = "ProfileKey"
    /\ outcome[j] = "cancelledProfileShare" /\ pc[j] = "done"

IsIdentityError(e) == e.class = "OutgoingIdentityKeyError"

\* A SendMessageProtoError whose sub-errors are all OutgoingIdentityKeyErrors.
AllIdentityErrors(error) ==
  /\ error.class = "SendMessageProtoError"
  /\ Len(error.errors) > 0
  /\ \A i \in 1..Len(error.errors) : IsIdentityError(error.errors[i])

\* The UUIDs of the untrusted contacts an error names, itself or in its
\* sub-errors.
UuidsNamed(error) ==
  { u \in Uuids :
      \/ IsIdentityError(error) /\ error.uuid = u
      \/ \E i \in 1..Len(error.errors) :
           IsIdentityError(error.errors[i]) /\ error.errors[i].uuid = u }

\* Some untrusted-identity error is in the error or its sub-errors.
HasIdentityError(error) ==
  \/ IsIdentityError(error)
  \/ \E i \in 1..Len(error.errors) : IsIdentityError(error.errors[i])

\* run() returned normally from the catch block: no retry, nothing recorded.
CancelledSilently(j) ==
  /\ pc'[j] = "done" /\ outcome'[j] = "cancelledUntrusted"
  /\ attempt'[j] = attempt[j]
  /\ verificationDataByConversation' = verificationDataByConversation

\* The handler of job j has just thrown.
Throws(j) == Steps(j) /\ pc[j] = "handler" /\ thrown' # NoError

\* C9 as stated: a Receipts or ProfileKey job whose handler fails with an
\* aggregate of untrusted-identity errors only returns normally, with no
\* retry and the verification state unchanged.
C9_CancelOnAnyIdentityAggregate ==
  [][\A j \in JobIds :
       (Throws(j) /\ Job(j).type \in {"Receipts", "ProfileKey"}
          /\ AllIdentityErrors(thrown')) => CancelledSilently(j)
  ]_vars

\* C9 amended: the same, for an aggregate of untrusted-identity errors at
\* least one of which names a contact that has a UUID.
C9_CancelOnUntrustedAggregate ==
  [][\A j \in JobIds :
       (Throws(j) /\ Job(j).type \in {"Receipts", "ProfileKey"}
          /\ AllIdentityErrors(thrown') /\ UuidsNamed(thrown') # {})
            => CancelledSilently(j)
  ]_vars

\* A Receipts job ended that way.
C9_Witness ==
  \E j \in Added :
    /\ Job(j).type = "Receipts"
    /\ outcome[j] = "cancelledUntrusted"
    /\ AllIdentityErrors(thrown)

\* The catch block recorded the untrusted UUIDs us for job j's conversation
\* and threw the error on.
RecordedAndRethrown(j, us) ==
  /\ verificationDataByConversation'[Conv(j)] =
       PendingVerification(
         (IF verificationDataByConversation[Conv(j)].type = "PendingVerification"
            THEN verificationDataByConversation[Conv(j)].uuidsNeedingVerification
            ELSE {}) \cup us)
  /\ Failed(pc'[j]) /\ outcome'[j] \in {"pending", "failed", "shutdown"}
  /\ (attempt[j] < MAX_ATTEMPTS /\ ~isShuttingDown) => pc'[j] = "backoff"

\* C10 as stated: a job of another kind whose handler fails with an error
\* containing at least one untrusted-identity error has the conversation put
\* under pending verification and the error thrown on.
C10_RecordOnAnyIdentityError ==
  [][\A j \in JobIds :
       (Throws(j) /\ Job(j).type \notin {"Receipts", "ProfileKey"}
          /\ HasIdentityError(thrown')) =>
            RecordedAndRethrown(j, UuidsNamed(thrown'))
  ]_vars

\* C10 amended: the same, for an error containing at least one
\* untrusted-identity error that names a contact with a UUID: all such UUIDs
\* are recorded for the job's conversation, then the error is thrown on and
\* the job is retried unless this was its last attempt or the queue is
\* shutting down.
C10_RecordOnUntrustedError ==
  [][\A j \in JobIds :
       (Throws(j) /\ Job(j).type \notin {"Receipts", "ProfileKey"}
          /\ UuidsNamed(thrown') # {}) =>
            RecordedAndRethrown(j, UuidsNamed(thrown'))
  ]_vars

\* A job waits out its backoff after an aggregate error naming two untrusted
\* contacts, and both are recorded.
C10_Witness ==
  \E j \in Added :
    /\ pc[j] = "backoff"
    /\ UuidsNamed(thrown) = {"u1", "u2"}
    /\ verificationDataByConversation[Conv(j)] = PendingVerification({"u1", "u2"})

IsChallengeError(e) == e.class = "SendMessageChallengeError"

\* A challenge error is the error itself or one of its sub-errors.
HasChallengeError(error) ==
  \/ IsChallengeError(error)
  \/ \E i \in 1..Len(error.errors) : IsChallengeError(error.errors[i])

\* run() threw: the attempt failed and the generic queue decides on a retry.
Rethrown(j) ==
  /\ Failed(pc'[j])
  /\ outcome'[j] \in {"pending", "failed", "shutdown"}
  /\ (attempt[j] < MAX_ATTEMPTS /\ ~isShuttingDown) => pc'[j] = "backoff"

ReachesWait(j) ==
  /\ pc[j] = "shouldContinue" /\ timeRemaining[j] > 0
  /\ \/ Conv(j) \in challenges
     \/ /\ verificationDataByConversation[Conv(j)].type = "PendingVerification"
        /\ Job(j).type # "ProfileKey"

C13_ShutdownKeepsRecords ==
  [][/\ \A j \in JobIds :
          /\ ( /\ Steps(j) /\ isShuttingDown /\ (ReachesWait(j) \/ Waiting(j))
               /\ Failed(pc'[j]) ) =>
                 /\ outcome'[j] = "shutdown"
                 /\ j \in store' /\ deletes'[j] = 0
                 /\ jobs' = jobs
          /\ outcome'[j] = "shutdown" =>
               /\ j \in store' /\ deletes'[j] = 0 /\ inserts'[j] = 1
               /\ outcome[j] = "shutdown" => jobs'[j] = jobs[j]
     /\ (~isShuttingDown /\ isShuttingDown') =>
          UNCHANGED << store, deletes, jobs >>
  ]_vars

\* A job on its last attempt was stopped by the shutdown while a challenge is
\* registered for its conversation; its record is still stored.
C13_Witness ==
  \E j \in Added :
    /\ isShuttingDown /\ outcome[j] = "shutdown"
    /\ attempt[j] = MAX_ATTEMPTS
    /\ Conv(j) \in challenges
    /\ j \in store

\* C14: a job whose conversation the directory does not have (the step out of
\* the lookup that does not enter the gating loop) ends for good in that
\* step: no handler, no gating wait, no backoff and no further attempt, and
\* its record is dropped.
C14_MissingConversationIsTerminal ==
  [][\A j \in JobIds :
       (Steps(j) /\ pc[j] = "load" /\ pc'[j] # "gate" /\ ~isShuttingDown) =>
          /\ pc'[j] = "done"
          /\ j \notin store'
          /\ UNCHANGED << verificationWaitMap, waiterSeq, awaiting >>
  ]_vars

\* The gating pass of job j reads a VerificationCancelled marker: time is
\* left and no challenge is registered.
SeesCancelled(j) ==
  /\ pc[j] = "shouldContinue" /\ timeRemaining[j] > 0
  /\ Conv(j) \notin challenges
  /\ verificationDataByConversation[Conv(j)].type = "VerificationCancelled"

CanceledAt(j) == verificationDataByConversation[Conv(j)].canceledAt

\* C15 as stated: a gating pass that reads VerificationCancelled with
\* canceledAt >= the job's timestamp abandons the job: no handler call, no
\* retry, the marker left in place.
C15_CancelledJobNotDispatched ==
  [][\A j \in JobIds :
       (Steps(j) /\ SeesCancelled(j) /\ CanceledAt(j) >= Job(j).timestamp) =>
          /\ pc'[j] = "done"
          /\ UNCHANGED verificationDataByConversation
  ]_vars

\* C15 amended: such a pass (equality included) leaves the marker in place,
\* starts no wait and leaves the gating loop with shouldContinue = false; the
\* handler is then invoked with that flag and the timeRemaining computed,
\* unless the messaging interface is missing, when the attempt fails like any
\* other.  run() itself does not end the job.
C15_CancelledJobIsToldToStop ==
  [][\A j \in JobIds :
       (Steps(j) /\ SeesCancelled(j) /\ CanceledAt(j) >= Job(j).timestamp) =>
          /\ UNCHANGED << verificationDataByConversation, verificationWaitMap,
                          waiterSeq, awaiting >>
          /\ \/ /\ pc'[j] = "handler"
                /\ ~shouldContinue'[j]
                /\ timeRemaining'[j] = timeRemaining[j]
             \/ Rethrown(j)
  ]_vars

\* The handler runs with shouldContinue = false, inside the retry window, for
\* a job whose conversation was cancelled at the very time the job was added.
C15_Witness ==
  \E j \in Added :
    /\ pc[j] = "handler" /\ ~shouldContinue[j] /\ timeRemaining[j] > 0
    /\ verificationDataByConversation[Conv(j)] = VerificationCancelled(Job(j).timestamp)

FirstOfConversation(j) ==
  \A k \in Added : (k < j /\ Conv(k) = Conv(j)) => pc[k] = "done"

\* C17: while a job of one conversation is suspended in a gating wait, a job
\* of another conversation is held up at no point on its way to the handler:
\* it can start as soon as it is first in its own conversation, look its
\* conversation up, enter the gating loop, and, with no challenge and no
\* verification state of its own, be dispatched.
C17_ConversationsIndependent ==
  \A j1, j2 \in Added :
    (Conv(j1) # Conv(j2) /\ Waiting(j1)) =>
      /\ (pc[j2] = "queued" /\ FirstOfConversation(j2)) =>
           ENABLED (RunStart(j2) /\ pc'[j2] = "load")
      /\ pc[j2] = "load" => ENABLED (Load(j2, TRUE) /\ pc'[j2] = "gate")
      /\ pc[j2] = "gate" => ENABLED GateEnter(j2)
      /\ ( /\ pc[j2] = "shouldContinue"
           /\ Conv(j2) \notin challenges
           /\ verificationDataByConversation[Conv(j2)].type = "None" ) =>
             ENABLED (GateClear(j2, TRUE) /\ pc'[j2] = "handler")
      /\ pc[j2] = "handler" => ENABLED HandlerSucceed(j2)

\* The handlers of two jobs of different conversations are in progress at the
\* same time.
C17_Witness ==
  \E j1, j2 \in Added :
    /\ Conv(j1) # Conv(j2)
    /\ pc[j1] = "handler" /\ pc[j2] = "handler"

\* C18: when the handler fails with an error from which no untrusted UUID is
\* collected, run() throws for every kind of job, ProfileKey and Receipts
\* included, the verification state stays as it was, and the challenge
\* registry changes only if a challenge error was scanned, and then only for
\* the job's conversation.
C18_OtherErrorsRethrown ==
  [][\A j \in JobIds :
       (Throws(j) /\ UuidsNamed(thrown') = {}) =>
          /\ Rethrown(j)
          /\ UNCHANGED verificationDataByConversation
          /\ IF HasChallengeError(thrown')
               THEN challenges' = challenges \cup {Conv(j)}
               ELSE challenges' = challenges
  ]_vars

\* A Receipts job waits out its backoff after an aggregate error whose only
\* sub-error is an untrusted-identity error for a contact without a UUID.
C18_Witness ==
  \E j \in Added :
    /\ Job(j).type = "Receipts"
    /\ pc[j] = "backoff"
    /\ thrown = Proto(<<Ident(NoUuid)>>)

\* Inside the gating loop: at its top, in a gating pass or in a gating wait.
InGatingLoop(j) ==
  pc[j] \in {"gate", "shouldContinue", "waitCaptcha", "waitVerification"}

\* The retry window of job j has elapsed.
WindowElapsed(j) == Job(j).timestamp + MAX_RETRY_TIME - now <= 0

\* C19 as stated: the gating loop is left no later than the moment the retry
\* window elapses, so no job is still suspended in a gating wait once its
\* window has elapsed.
C19_ExitsByWindowEnd ==
  \A j \in Added : Waiting(j) => ~WindowElapsed(j)

\* C19 amended: under fair scheduling with advancing time, every gating wait
\* ends, and every job that is in the gating loop leaves it (to the handler,
\* by returning or by failing the attempt), also when the challenge or the
\* pending verification that holds it is never cleared: a pass that computed
\* timeRemaining <= 0 leaves the loop, and only a pass that computed
\* timeRemaining > 0 starts a wait.  The loop is left at the first pass begun
\* after the window elapsed, which may be one gating wait later than that
\* moment.
C19_GatingLoopTerminates ==
  /\ \A j \in JobIds : Waiting(j) ~> ~Waiting(j)
  /\ \A j \in JobIds : InGatingLoop(j) ~> ~InGatingLoop(j)
  /\ [][\A j \in JobIds :
          /\ (Steps(j) /\ pc[j] = "shouldContinue" /\ timeRemaining[j] <= 0) =>
               ~InGatingLoop(j)'
          /\ (Steps(j) /\ pc[j] = "shouldContinue" /\ Waiting(j)') =>
               timeRemaining[j] > 0
          /\ (Steps(j) /\ pc[j] = "gate") =>
               timeRemaining'[j] = Job(j).timestamp + MAX_RETRY_TIME - now
     ]_vars

\* The only job added has left the gating loop because its retry window
\* elapsed: the challenge is still registered and the rendezvous of its wait
\* is still in the map, unresolved.
C19_Witness ==
  \E j \in Added :
    /\ Len(jobs) = 1
    /\ pc[j] = "handler" /\ timeRemaining[j] <= 0 /\ ~shouldContinue[j]
    /\ Conv(j) \in challenges
    /\ verificationWaitMap[Conv(j)] # 0

\* C20: a gating pass that finds a challenge registered for the job's
\* conversation does the same whatever the verification state is, for every
\* kind of job: with time left it starts the captcha wait, or fails the
\* attempt if the queue is shutting down; it never returns as a cancelled
\* profile share, never takes shouldContinue = false from a cancellation
\* marker, and leaves the verification state, marker included, as it is.
C20_CaptchaBeforeVerification ==
  [][\A j \in JobIds :
       (Steps(j) /\ pc[j] = "shouldContinue" /\ Conv(j) \in challenges) =>
          /\ UNCHANGED verificationDataByConversation
          /\ outcome'[j] # "cancelledProfileShare"
          /\ pc'[j] # "waitVerification"
          /\ timeRemaining[j] > 0 =>
               IF isShuttingDown
                 THEN Rethrown(j)
                 ELSE /\ pc'[j] = "waitCaptcha"
                      /\ awaiting'[j] = verificationWaitMap'[Conv(j)]
          /\ pc'[j] = "handler" => timeRemaining[j] <= 0
  ]_vars

\* A ProfileKey job is suspended at the captcha gate while verification is
\* pending for its conversation.
C20_Witness ==
  \E j \in Added :
    /\ Job(j).type = "ProfileKey"
    /\ pc[j] = "waitCaptcha"
    /\ Conv(j) \in challenges
    /\ verificationDataByConversation[Conv(j)].type = "PendingVerification"

\* Job j is suspended on a rendezvous nobody has resolved.
Unreleased(j) == Waiting(j) /\ awaiting[j] \notin resolvedWaiters

\* C21: a job enters a gating wait in the very step in which it reads the
\* gate (challenge registered, or verification pending) and is, from that
\* step on, attached to the rendezvous in the map of its conversation; so
\* every job suspended and not yet released holds the map's current entry,
\* and a call of resolveVerificationWaiter that finds the entry releases every
\* job suspended for that conversation (its rendezvous is resolved, so it can
\* go on without the timeout) and fails none.
C21_NoLostWakeup ==
  [][/\ \A j \in JobIds :
          /\ (Steps(j) /\ Waiting(j)') =>
               /\ pc[j] = "shouldContinue"
               /\ \/ Conv(j) \in challenges
                  \/ verificationDataByConversation[Conv(j)].type = "PendingVerification"
               /\ awaiting'[j] # 0
               /\ awaiting'[j] = verificationWaitMap'[Conv(j)]
          /\ (j \in Added /\ Unreleased(j)') =>
               awaiting'[j] = verificationWaitMap'[Conv(j)]
     /\ \A c \in ConvIds :
          (verificationWaitMap[c] # 0 /\ verificationWaitMap'[c] = 0) =>
            \A j \in Added :
              (Conv(j) = c /\ Waiting(j)) =>
                /\ Waiting(j)' /\ awaiting'[j] \in resolvedWaiters'
                /\ pc'[j] = pc[j] /\ outcome'[j] = outcome[j]
  ]_vars

\* The challenge has been solved and the rendezvous resolved: the job that
\* waited at the captcha gate is released.
C21_Witness ==
  \E j \in Added :
    /\ pc[j] = "waitCaptcha"
    /\ Conv(j) \notin challenges
    /\ verificationWaitMap[Conv(j)] = 0
    /\ awaiting[j] \in resolvedWaiters

\* C22: in every state at most one job is suspended in a gating wait of a
\* conversation, no rendezvous is awaited by two jobs, and while a job is
\* suspended every other job of its conversation is either through or, if it
\* was added later, still queued: none has started, whatever its kind.
C22_OneSuspendedPerConversation ==
  /\ \A c \in ConvIds :
       Cardinality({ j \in Added : Conv(j) = c /\ Waiting(j) }) <= 1
  /\ \A j, k \in Added :
       (j # k /\ awaiting[j] # 0) => awaiting[k] # awaiting[j]
  /\ \A j, k \in Added :
       (j # k /\ Conv(j) = Conv(k) /\ Waiting(j)) =>
         /\ k < j => pc[k] = "done"
         /\ k > j => pc[k] = "queued" /\ attempt[k] = 0

\* A ProfileKey job, which would return at once under pending verification,
\* is queued behind a job of its conversation that is suspended on the
\* conversation's rendezvous for that very reason.
C22_Witness ==
  \E j, k \in Added :
    /\ j < k /\ Conv(j) = Conv(k)
    /\ pc[j] = "waitVerification"
    /\ awaiting[j] = verificationWaitMap[Conv(j)]
    /\ Job(k).type = "ProfileKey" /\ pc[k] = "queued"
    /\ verificationDataByConversation[Conv(k)].type = "PendingVerification"

\* C23: an entry leaves the map only in a step that is a call of
\* resolveVerificationWaiter, which moves no job and resolves that entry; a
\* job that leaves its wait unreleased, by the timeout or by the shutdown,
\* leaves its entry in the map; the next wait takes the entry it finds and
\* creates none; a wait never attaches to a rendezvous already resolved; a
\* rendezvous becomes resolved only in a step that removes it from the map;
\* and resolveVerificationWaiter for a conversation without an entry leaves
\* the map, the rendezvous and every job as they are.
C23_EntryRemovedOnlyByResolve ==
  [][/\ \A c \in ConvIds :
          /\ (verificationWaitMap[c] # 0 /\ verificationWaitMap'[c] # verificationWaitMap[c]) =>
               /\ verificationWaitMap'[c] = 0
               /\ ResolveVerificationWaiter(c)
               /\ pc' = pc /\ awaiting' = awaiting /\ outcome' = outcome
          /\ (verificationWaitMap[c] = 0 /\ ResolveVerificationWaiter(c)) =>
               UNCHANGED << verificationWaitMap, waiterSeq, resolvedWaiters, awaiting,
                            pc, outcome, store, lanes >>
          /\ (verificationWaitMap[c] = 0 /\ verificationWaitMap'[c] # 0) =>
               \E j \in Added : Conv(j) = c /\ Steps(j) /\ Waiting(j)'
     /\ \A j \in JobIds :
          /\ (Steps(j) /\ Unreleased(j)) =>
               /\ verificationWaitMap' = verificationWaitMap
               /\ verificationWaitMap[Conv(j)] = awaiting[j]
               /\ resolvedWaiters' = resolvedWaiters
          /\ (Steps(j) /\ Waiting(j)') =>
               /\ awaiting'[j] \notin resolvedWaiters'
               /\ verificationWaitMap[Conv(j)] # 0 =>
                    /\ awaiting'[j] = verificationWaitMap[Conv(j)]
                    /\ UNCHANGED << verificationWaitMap, waiterSeq >>
     /\ \A w \in 1..MaxWaiters :
          (w \notin resolvedWaiters /\ w \in resolvedWaiters') =>
            \E c \in ConvIds : verificationWaitMap[c] = w /\ verificationWaitMap'[c] = 0
  ]_vars

\* The only job added waited, timed out, waited again on the entry it had
\* left in the map, and has now been released by resolveVerificationWaiter.
C23_Witness ==
  \E j \in Added :
    /\ Len(jobs) = 1
    /\ Waiting(j) /\ joined[j]
    /\ waiterSeq = 1
    /\ awaiting[j] \in resolvedWaiters
    /\ verificationWaitMap[Conv(j)] = 0

====
